---- MODULE Spec2Model ----
(***************************************************************************)
(* Model of the credential-lifecycle manager (AuthTokenManager) and the    *)
(* resilient-call executor (NetworkRetry) of homebridge-ecobee-fan-control. *)
(*                                                                         *)
(* Time is in milliseconds, as in the source (moment / Date.now()).        *)
(* Timestamps are kept relative to the current instant: the clock reads    *)
(* now = 0 in every state, and the passage of d ms moves every stored      *)
(* timestamp d ms into the past.  The code only ever compares differences  *)
(* of timestamps, so its tests read here exactly as in the source.         *)
(*                                                                         *)
(* Every action is one synchronous segment of the JavaScript event loop:   *)
(* the code between two awaits runs atomically.                            *)
(***************************************************************************)
EXTENDS Integers, Sequences, FiniteSets, TLC

(***************************************************************************)
(* Bounds of the model                                                     *)
(***************************************************************************)
\* the clock advances by up to MaxTickUnits units at once, and never past a deadline
MaxTickUnits == 1
\* jitter resolution: Math.random()*2-1 is drawn from k/JitterDen, k in -JitterDen..JitterDen-1
JitterDen == 1
\* consecutiveFailures is followed up to MaxFailures
MaxFailures == 4
\* token-like values of the config document before and after the platform's entry
MaxOther == 1

(***************************************************************************)
(* Program constants                                                       *)
(***************************************************************************)
\* moment() and Date.now(): the current instant
now == 0
\* JavaScript's undefined, for optional fields and absent response members
undefined == -1

TOKEN_REFRESH_BUFFER == 300
MIN_REFRESH_INTERVAL == 60
RATE_LIMIT_BACKOFF == 5 * 60 * 1000
\* scheduleBackgroundRefresh(60000) in the catch block
FAILURE_RETRY_DELAY == 60000
\* calculateDelay caps a Retry-After wait at 5 minutes
RETRY_AFTER_CAP == 5 * 60 * 1000

\* the default retryableErrors list of NetworkRetry
RetryableErrors == {"ECONNRESET", "ETIMEDOUT", "ECONNREFUSED", "ENOTFOUND", "EAI_AGAIN"}

\* new NetworkRetry({...}) in the AuthTokenManager constructor
AuthPolicy ==
  [ totalWindowMs |-> (TOKEN_REFRESH_BUFFER - 30) * 1000,
    maxAttempts   |-> 5,
    initialDelay  |-> 30000,
    maxDelay      |-> 120000,
    backoffFactor |-> 2,
    retryableErrors |-> RetryableErrors ]

(***************************************************************************)
(* Processes: two callers of renewAuthToken (platform start-up, accessory  *)
(* operations) and the callback of the background-refresh timer.           *)
(***************************************************************************)
Callers == {"c1", "c2"}
TimerProc == "timer"
Procs == Callers \cup {TimerProc}

(***************************************************************************)
(* Inputs: what the token endpoint and the config store may do             *)
(***************************************************************************)
\* access tokens the endpoint may mint; 0 is the empty string ''
AccessTokens == {1, 2}
\* refresh tokens; 0 is the empty string ''
RefreshTokens == {1, 2}
\* expires_in (seconds) the endpoint may return
ExpiresInValues == {undefined, 0, -5, 240, 300, 360}
\* a token of set S that differs from the one in use: the endpoint mints new tokens
Minted(S, current) == CHOOSE x \in S : x /= current

\* response.data of a 2xx answer of the token endpoint, when the manager holds
\* access token access and sent refresh token refresh
SuccessData(access, refresh) ==
  [ access_token  : {Minted(AccessTokens, access)},
    expires_in    : ExpiresInValues,
    refresh_token : {undefined, 0, Minted(RefreshTokens, refresh)} ]
  \cup
  [ access_token  : {undefined},
    expires_in    : {360},
    refresh_token : {undefined} ]

\* an error thrown by axios: code, response.status (0: no response), Retry-After header (seconds)
AxiosError(code, status, retryAfter) ==
  [ isAxiosError |-> TRUE, code |-> code, status |-> status, retryAfter |-> retryAfter ]

\* an Error that is not an axios error (thrown by the manager itself or by fs)
PlainError(msg) ==
  [ isAxiosError |-> FALSE, code |-> msg, status |-> 0, retryAfter |-> undefined ]

\* the failures the token endpoint may produce
EndpointErrors ==
  { AxiosError("ERR_BAD_REQUEST", 429, undefined),
    AxiosError("ERR_BAD_RESPONSE", 503, undefined),
    AxiosError("ERR_BAD_REQUEST", 400, undefined),
    AxiosError("ETIMEDOUT", 0, undefined),
    AxiosError("ENETUNREACH", 0, undefined) }

\* outcomes of updateHomebridgeConfig's file access
IoOutcomes == {"ok", "readFails", "writeFails"}

VARIABLES
  authToken,                \* AuthTokenManager.authToken
  refreshToken,             \* AuthTokenManager.refreshToken
  expiration,               \* AuthTokenManager.expiration
  refreshInProgress,        \* AuthTokenManager.refreshInProgress
  lastRefreshAttempt,       \* AuthTokenManager.lastRefreshAttempt
  backgroundRefreshTimeout, \* AuthTokenManager.backgroundRefreshTimeout (a timer handle)
  rateLimitedUntil,         \* AuthTokenManager.rateLimitedUntil
  timers,                   \* the event loop's pending background timers: [id, at, delay]
  configDoc,                \* content of the homebridge config file
  hist,                     \* history of the credential now held (for the properties)
  call,                     \* per process: the running renewAuthToken invocation
  retry,                    \* a NetworkRetry instance used on its own: policy and shared fields
  run                       \* per user of that instance: its execute call

\* the state of the credential manager
mgrVars == << authToken, refreshToken, expiration, refreshInProgress,
              lastRefreshAttempt, backgroundRefreshTimeout, rateLimitedUntil,
              timers, configDoc, hist, call >>

\* the state of the NetworkRetry instance used on its own
execVars == << retry, run >>

vars == << authToken, refreshToken, expiration, refreshInProgress,
           lastRefreshAttempt, backgroundRefreshTimeout, rateLimitedUntil,
           timers, configDoc, hist, call, retry, run >>

(***************************************************************************)
(* Helpers                                                                 *)
(***************************************************************************)
Min(a, b) == IF a <= b THEN a ELSE b
Max(a, b) == IF a >= b THEN a ELSE b
MinOf(S) == CHOOSE x \in S : \A y \in S : x <= y

RECURSIVE Pow(_, _)
\* Math.pow(b, e) for natural e
Pow(b, e) == IF e = 0 THEN 1 ELSE b * Pow(b, e - 1)

\* JavaScript truthiness of a string or number member: undefined, '' and 0 are falsy
Truthy(x) == x /= undefined /\ x /= 0

\* setTimeout(f, delay) fires at this instant: delays below 1 ms are raised to 1 ms
setTimeoutAt(delay) == now + Max(delay, 1)

\* a refresh token whose text contains the replacement pattern "$&"
DollarToken == 3

\* what String.prototype.replace inserts for the replacement string new when it
\* replaces old: patterns such as "$&" are expanded (here to a text of its own, 100 + old)
Substituted(new, old) == IF new = DollarToken THEN 100 + old ELSE new

\* String.prototype.replace(old, new) on a document of symbols: the first occurrence only
RECURSIVE ReplaceFirst(_, _, _)
ReplaceFirst(doc, old, new) ==
  IF doc = << >> THEN << >>
  ELSE IF Head(doc) = old
       THEN (IF new = 0 THEN << >> ELSE << Substituted(new, old) >>) \o Tail(doc)
       ELSE << Head(doc) >> \o ReplaceFirst(Tail(doc), old, new)

(***************************************************************************)
(* NetworkRetry                                                            *)
(***************************************************************************)
\* a classification that retries every HTTP error status
RetriesClientErrors(policy, error) ==
  /\ error.isAxiosError
  /\ \/ error.code \in policy.retryableErrors
     \/ error.status >= 400

\* NetworkRetry.isRetryableError
isRetryableError(policy, error) ==
  /\ error.isAxiosError
  /\ \/ error.code \in policy.retryableErrors
     \/ error.status >= 500
     \/ error.status = 429
     \/ error.code = "EAI_AGAIN"
     \/ error.code = "ETIMEDOUT"

\* the jitter draws: Math.random() * 2 - 1 lies in [-1, 1)
JitterDraws == (0 - JitterDen) .. (JitterDen - 1)

\* the draws the renewals of this model see: Math.random() = 0.5
AuthDraws == {0}

\* baseDelay * 0.25 * (Math.random() * 2 - 1), for the draw k / JitterDen
Jitter(baseDelay, k) == (baseDelay * k) \div (4 * JitterDen)

\* a delay that does not grow with the attempt number
FlatDelay(policy, attempt, error, k) ==
  IF error.isAxiosError /\ error.status = 429
  THEN IF error.retryAfter /= undefined
       THEN Min(Max(error.retryAfter * 1000, policy.initialDelay), RETRY_AFTER_CAP)
       ELSE LET baseDelay == policy.initialDelay * 4
            IN  Min(baseDelay + Jitter(baseDelay, k), policy.maxDelay * 2)
  ELSE LET baseDelay == policy.initialDelay
       IN  Min(baseDelay + Jitter(baseDelay, k), policy.maxDelay)

\* a delay that reads the Retry-After header as milliseconds
RetryAfterAsMs(policy, attempt, error, k) ==
  IF error.isAxiosError /\ error.status = 429
  THEN IF error.retryAfter /= undefined
       THEN Min(Max(error.retryAfter, policy.initialDelay), RETRY_AFTER_CAP)
       ELSE LET baseDelay == policy.initialDelay * Pow(2, attempt + 2)
            IN  Min(baseDelay + Jitter(baseDelay, k), policy.maxDelay * 2)
  ELSE LET baseDelay == policy.initialDelay * Pow(policy.backoffFactor, attempt)
       IN  Min(baseDelay + Jitter(baseDelay, k), policy.maxDelay)

\* a delay whose jitter is half the base delay each way
WideJitter(policy, attempt, error, k) ==
  IF error.isAxiosError /\ error.status = 429
  THEN IF error.retryAfter /= undefined
       THEN Min(Max(error.retryAfter * 1000, policy.initialDelay), RETRY_AFTER_CAP)
       ELSE LET baseDelay == policy.initialDelay * Pow(2, attempt + 2)
            IN  Min(baseDelay + Jitter(2 * baseDelay, k), policy.maxDelay * 2)
  ELSE LET baseDelay == policy.initialDelay * Pow(policy.backoffFactor, attempt)
       IN  Min(baseDelay + Jitter(2 * baseDelay, k), policy.maxDelay)

\* a delay that backs off after a 429 no faster than after other failures
GentleRateLimitBackoff(policy, attempt, error, k) ==
  IF error.isAxiosError /\ error.status = 429
  THEN IF error.retryAfter /= undefined
       THEN Min(Max(error.retryAfter * 1000, policy.initialDelay), RETRY_AFTER_CAP)
       ELSE LET baseDelay == policy.initialDelay * Pow(2, attempt)
            IN  Min(baseDelay + Jitter(baseDelay, k), policy.maxDelay * 2)
  ELSE LET baseDelay == policy.initialDelay * Pow(policy.backoffFactor, attempt)
       IN  Min(baseDelay + Jitter(baseDelay, k), policy.maxDelay)

\* NetworkRetry.calculateDelay(attempt, error), with the jitter draw made explicit
calculateDelay(policy, attempt, error, k) ==
  IF error.isAxiosError /\ error.status = 429
  THEN IF error.retryAfter /= undefined
       THEN Min(Max(error.retryAfter * 1000, policy.initialDelay), RETRY_AFTER_CAP)
       ELSE LET baseDelay == policy.initialDelay * Pow(2, attempt + 2)
            IN  Min(baseDelay + Jitter(baseDelay, k), policy.maxDelay * 2)
  ELSE LET baseDelay == policy.initialDelay * Pow(policy.backoffFactor, attempt)
       IN  Min(baseDelay + Jitter(baseDelay, k), policy.maxDelay)

\* a test that does not stop at the last allowed attempt
GivesUpIgnoringBudget(policy, attempt, startTime, error) ==
  LET timeElapsed   == now - startTime
      timeRemaining == policy.totalWindowMs - timeElapsed
  IN  \/ ~isRetryableError(policy, error)
      \/ timeRemaining <= 0

\* the test of execute's catch block: give up and rethrow, or sleep and retry
GivesUp(policy, attempt, startTime, error) ==
  LET timeElapsed   == now - startTime
      timeRemaining == policy.totalWindowMs - timeElapsed
  IN  \/ ~isRetryableError(policy, error)
      \/ timeRemaining <= 0
      \/ attempt = policy.maxAttempts - 1

(***************************************************************************)
(* AuthTokenManager                                                        *)
(***************************************************************************)
\* the manager's fields (and the timers and file they act on) as one value
Mgr ==
  [ authToken                |-> authToken,
    refreshToken             |-> refreshToken,
    expiration               |-> expiration,
    refreshInProgress        |-> refreshInProgress,
    lastRefreshAttempt       |-> lastRefreshAttempt,
    backgroundRefreshTimeout |-> backgroundRefreshTimeout,
    rateLimitedUntil         |-> rateLimitedUntil,
    timers                   |-> timers,
    configDoc                |-> configDoc,
    hist                     |-> hist ]

SetMgr(m) ==
  /\ authToken' = m.authToken
  /\ refreshToken' = m.refreshToken
  /\ expiration' = m.expiration
  /\ refreshInProgress' = m.refreshInProgress
  /\ lastRefreshAttempt' = m.lastRefreshAttempt
  /\ backgroundRefreshTimeout' = m.backgroundRefreshTimeout
  /\ rateLimitedUntil' = m.rateLimitedUntil
  /\ timers' = m.timers
  /\ configDoc' = m.configDoc
  /\ hist' = m.hist

\* a backoff test that never holds
RateLimitIgnored(m) == FALSE

\* a backoff test that lets calls through during the last minute of the backoff
RateLimitEndsEarly(m) ==
  m.rateLimitedUntil /= undefined /\ now + MIN_REFRESH_INTERVAL * 1000 < m.rateLimitedUntil

\* rateLimitedUntil && moment().isBefore(rateLimitedUntil)
RateLimitActive(m) == m.rateLimitedUntil /= undefined /\ now < m.rateLimitedUntil

\* isExpired with the boundary instant counted as expired
IsExpiredInclusive(m) ==
  IF RateLimitActive(m) THEN FALSE
  ELSE m.authToken = 0 \/ now + TOKEN_REFRESH_BUFFER * 1000 >= m.expiration

\* isExpired without the rate-limit test
IsExpiredIgnoringRateLimit(m) ==
  m.authToken = 0 \/ now + TOKEN_REFRESH_BUFFER * 1000 > m.expiration

\* AuthTokenManager.isExpired on the manager state m
IsExpiredOf(m) ==
  IF RateLimitActive(m) THEN FALSE
  ELSE m.authToken = 0 \/ now + TOKEN_REFRESH_BUFFER * 1000 > m.expiration

\* AuthTokenManager.isExpired()
isExpired == IsExpiredOf(Mgr)

\* clearTimeout(handle): a handle that has fired or was cleared is ignored
clearTimeout(pending, handle) == { t \in pending : t.id /= handle }

\* a fresh timer handle: one that names no pending timer
NewHandle(m) ==
  MinOf({ i \in 1 .. Cardinality(m.timers) + 1 : \A t \in m.timers : t.id /= i })

\* dropping the handle without cancelling the timer it names
ForgetHandle(m) == [m EXCEPT !.backgroundRefreshTimeout = undefined]

\* AuthTokenManager.clearBackgroundRefresh
clearBackgroundRefresh(m) ==
  IF m.backgroundRefreshTimeout /= undefined
  THEN [m EXCEPT !.timers = clearTimeout(m.timers, m.backgroundRefreshTimeout),
                 !.backgroundRefreshTimeout = undefined]
  ELSE m

\* arming a timer without cancelling the one the handle names
ArmWithoutClearing(m, delayMs) ==
  LET h == NewHandle(m)
  IN  [m EXCEPT !.timers = m.timers \cup { [id |-> h, at |-> setTimeoutAt(delayMs), delay |-> delayMs] },
                !.backgroundRefreshTimeout = h]

\* arming the timer with the delay taken for seconds
ArmInSeconds(m, delayMs) ==
  LET c == clearBackgroundRefresh(m)
      h == NewHandle(m)
  IN  [c EXCEPT !.timers = c.timers \cup { [id |-> h, at |-> setTimeoutAt(delayMs * 1000),
                                             delay |-> delayMs] },
                !.backgroundRefreshTimeout = h]

\* AuthTokenManager.scheduleBackgroundRefresh(delayMs)
scheduleBackgroundRefresh(m, delayMs) ==
  LET c == clearBackgroundRefresh(m)
      h == NewHandle(m)
  IN  [c EXCEPT !.timers = c.timers \cup { [id |-> h, at |-> setTimeoutAt(delayMs), delay |-> delayMs] },
                !.backgroundRefreshTimeout = h]

\* a renewal that ends without its cleanup step
FinallySkipped(m) == m

\* the finally block of renewAuthToken
Finally(m) == [m EXCEPT !.refreshInProgress = FALSE]

\* a catch block that retries one minute after a 429 as after any other failure
CatchBlockShortRetry(m, error) ==
  IF error.isAxiosError /\ error.status = 429
  THEN scheduleBackgroundRefresh(
         [m EXCEPT !.rateLimitedUntil = now + RATE_LIMIT_BACKOFF], FAILURE_RETRY_DELAY)
  ELSE IF ~isRetryableError(AuthPolicy, error)
       THEN scheduleBackgroundRefresh(m, FAILURE_RETRY_DELAY)
       ELSE m

\* the catch block of renewAuthToken, for the error it caught
CatchBlock(m, error) ==
  IF error.isAxiosError /\ error.status = 429
  THEN scheduleBackgroundRefresh(
         [m EXCEPT !.rateLimitedUntil = now + RATE_LIMIT_BACKOFF], RATE_LIMIT_BACKOFF)
  ELSE IF ~isRetryableError(AuthPolicy, error)
       THEN scheduleBackgroundRefresh(m, FAILURE_RETRY_DELAY)
       ELSE m

\* updateHomebridgeConfig(api, config => config.replace(old, new)): the document after it
updateHomebridgeConfig(doc, old, new, io) ==
  IF io = "ok" THEN ReplaceFirst(doc, old, new) ELSE doc

\* whether updateHomebridgeConfig throws (readFileSync or writeFileSync fails)
ConfigThrows(doc, old, new, io) ==
  \/ io = "readFails"
  \/ io = "writeFails" /\ ReplaceFirst(doc, old, new) /= doc

(***************************************************************************)
(* One renewAuthToken invocation                                           *)
(***************************************************************************)
\* an invocation slot that is not running
IdleCall ==
  [ pc        |-> "idle",     \* idle, waiting, inflight, sleeping, done
    via       |-> "none",     \* the path the call took
    ret       |-> undefined,  \* the value the promise resolved with
    thrown    |-> FALSE,      \* whether the promise rejected
    attempt   |-> 0,          \* execute: attempt
    startTime |-> 0,          \* execute: startTime
    wakeAt    |-> 0,          \* end of the backoff sleep
    old       |-> 0,          \* oldRefreshToken
    inWindow  |-> FALSE,      \* a waiter: whether it called within the debounce window
    released  |-> FALSE,      \* a waiter: whether the renewal it found running has ended
    awaited   |-> undefined,  \* a waiter: what that renewal returned to its caller
    caught    |-> PlainError("none") ] \* the error the catch block caught

\* a call that has returned value ret along path via
Returned(c, via, ret) ==
  [c EXCEPT !.pc = "done", !.via = via, !.ret = ret,
            !.attempt = 0, !.startTime = 0, !.wakeAt = 0, !.old = 0]

\* moment().diff(lastRefreshAttempt, 'seconds'): whole seconds, truncated
timeSinceLastAttempt(m) == (now - m.lastRefreshAttempt) \div 1000

\* a debounce test with half the interval
TooSoonHalved(m) == timeSinceLastAttempt(m) * 2 < MIN_REFRESH_INTERVAL

\* the debounce test of renewAuthToken
TooSoon(m) == timeSinceLastAttempt(m) < MIN_REFRESH_INTERVAL

\* a renewAuthToken without the in-progress test
NeverRenewing(m) == FALSE

\* the test that sends a caller into the wait loop
AlreadyRenewing(m) == m.refreshInProgress

\* history: a request goes to the token endpoint
NoteRequest(m) == [m EXCEPT !.hist.requested = TRUE]

\* the value the catch block returns
CatchResult(c) == Returned(c, "failed", undefined)

\* the path of renewAuthToken that ends in its catch and finally blocks
FailurePath(m, c, error) ==
  [ m |-> Finally(CatchBlock(m, error)), c |-> [CatchResult(c) EXCEPT !.caught = error] ]

\* renewAuthToken from its first line to its first await (or its return)
RenewStart(m, c) ==
  IF RateLimitActive(m)
  THEN [ m |-> m, c |-> Returned(c, "ratelimited", m.authToken) ]
  ELSE IF AlreadyRenewing(m)
  THEN [ m |-> m, c |-> [c EXCEPT !.pc = "waiting", !.inWindow = TooSoon(m)] ]
  ELSE IF TooSoon(m)
  THEN [ m |-> m, c |-> Returned(c, "debounced", m.authToken) ]
  ELSE LET m1 == clearBackgroundRefresh(
                   [m EXCEPT !.refreshInProgress = TRUE, !.lastRefreshAttempt = now])
       IN  IF ~Truthy(m1.refreshToken)
           THEN FailurePath(m1, c, PlainError("No refresh token in config file"))
           ELSE [ m |-> NoteRequest(m1),
                  c |-> [c EXCEPT !.pc = "inflight", !.old = m1.refreshToken,
                                  !.startTime = now, !.attempt = 0] ]

\* the response validation of renewAuthToken
ValidTokenData(data) == Truthy(data.access_token) /\ Truthy(data.expires_in)

\* authData.refresh_token ?? oldRefreshToken
UpdatedRefreshToken(data, old) ==
  IF data.refresh_token = undefined THEN old ELSE data.refresh_token

\* the credential assignments with expires_in taken for milliseconds
InstallCredentialSeconds(m, data, old) ==
  [m EXCEPT !.authToken = data.access_token,
            !.refreshToken = UpdatedRefreshToken(data, old),
            !.expiration = now + data.expires_in,
            !.hist = [ installedAt |-> now, lifetime |-> data.expires_in,
                       requested |-> FALSE ]]

\* the three credential assignments after validation
InstallCredential(m, data, old) ==
  [m EXCEPT !.authToken = data.access_token,
            !.refreshToken = UpdatedRefreshToken(data, old),
            !.expiration = now + data.expires_in * 1000,
            !.hist = [ installedAt |-> now, lifetime |-> data.expires_in,
                       requested |-> FALSE ]]

\* a renewal that updates the config file before it validates the answer
RenewSuccessWritingFirst(m, c, data, io) ==
  LET old == c.old
      upd == UpdatedRefreshToken(data, old)
      m0  == [m EXCEPT !.configDoc = IF old /= upd
                                     THEN updateHomebridgeConfig(@, old, upd, io)
                                     ELSE @]
  IN  IF ~ValidTokenData(data)
      THEN FailurePath(m0, c, PlainError("Invalid token data received from Ecobee API"))
      ELSE LET m1 == InstallCredential(m0, data, old)
               m2 == scheduleBackgroundRefresh(
                       m1, (data.expires_in - TOKEN_REFRESH_BUFFER) * 1000)
           IN  IF old /= upd /\ ConfigThrows(m.configDoc, old, upd, io)
               THEN FailurePath(m2, c, PlainError("config file access failed"))
               ELSE [ m |-> Finally([m2 EXCEPT !.rateLimitedUntil = undefined]),
                      c |-> Returned(c, "renewed", data.access_token) ]

\* renewAuthToken after execute returned data: validation to return
RenewSuccess(m, c, data, io) ==
  LET old == c.old
      upd == UpdatedRefreshToken(data, old)
  IN  IF ~ValidTokenData(data)
      THEN FailurePath(m, c, PlainError("Invalid token data received from Ecobee API"))
      ELSE LET m1 == InstallCredential(m, data, old)
               m2 == scheduleBackgroundRefresh(
                       m1, (data.expires_in - TOKEN_REFRESH_BUFFER) * 1000)
           IN  IF old /= upd /\ ConfigThrows(m2.configDoc, old, upd, io)
               THEN FailurePath(m2, c, PlainError("config file access failed"))
               ELSE LET m3 == [m2 EXCEPT
                                 !.configDoc = IF old /= upd
                                               THEN updateHomebridgeConfig(@, old, upd, io)
                                               ELSE @,
                                 !.rateLimitedUntil = undefined]
                    IN  [ m |-> Finally(m3),
                          c |-> Returned(c, "renewed", data.access_token) ]

\* the invocations after process p ran a segment with outcome c: when a renewal ends,
\* what it returned is what its waiters awaited
Others(calls, p, c) ==
  [q \in Procs |->
     IF q = p THEN c
     ELSE IF /\ c.pc = "done" /\ c.via \in {"renewed", "failed"}
             /\ calls[q].pc = "waiting"
          THEN [calls[q] EXCEPT
                  !.awaited = IF calls[q].released THEN @ ELSE c.ret,
                  !.released = TRUE]
     ELSE calls[q]]

\* a settled promise is taken by its caller before anything else runs
Settling == \E p \in Procs : call[p].pc = "done"

\* install the outcome r = [m, c] of a segment run by process p
Apply(p, r) ==
  /\ ~Settling
  /\ SetMgr(r.m)
  /\ UNCHANGED execVars
  /\ call' = Others(call, p, r.c)

(***************************************************************************)
(* NetworkRetry.execute on an instance of its own, shared by several users *)
(***************************************************************************)
\* the users of the instance (accessory requests wrapped in execute)
Users == {"u1", "u2"}

\* a policy with short delays: maxAttempts 3, initialDelay 100 ms, backoffFactor 2,
\* maxDelay 1000 ms, and the default total window
TestPolicy ==
  [ totalWindowMs |-> 270 * 1000,
    maxAttempts   |-> 3,
    initialDelay  |-> 100,
    maxDelay      |-> 1000,
    backoffFactor |-> 2,
    retryableErrors |-> RetryableErrors ]

\* new NetworkRetry({...}) in the FanSwitchAccessory constructor
AccessoryPolicy ==
  [ totalWindowMs |-> 270 * 1000,
    maxAttempts   |-> 8,
    initialDelay  |-> 15000,
    maxDelay      |-> 60000,
    backoffFactor |-> 2,
    retryableErrors |-> RetryableErrors \cup {"ENETUNREACH"} ]

\* the policies an instance may be constructed with
PolicySet == {AuthPolicy, AccessoryPolicy, TestPolicy}

\* the Math.random() draws followed per instance: all of them where one user's
\* delays are looked at, 0.5 where two users share the instance
DrawsOf(policy) == IF policy = AccessoryPolicy THEN AuthDraws ELSE JitterDraws

\* the instance with several users at once: the accessory's, whose status polls and
\* HomeKit requests overlap (renewals are serialized, the test policy has one user)
SharedBy(policy, u) == u = "u1" \/ policy = AccessoryPolicy

\* the failures an operation may produce
OperationErrors ==
  { AxiosError("ERR_BAD_REQUEST", 429, undefined),
    AxiosError("ERR_BAD_REQUEST", 429, 10),
    AxiosError("ERR_BAD_RESPONSE", 503, undefined),
    AxiosError("ERR_BAD_REQUEST", 400, undefined),
    AxiosError("ETIMEDOUT", 0, undefined),
    AxiosError("ENETUNREACH", 0, undefined),
    PlainError("operation failed") }

\* the failures the operation of user u may produce: those of the second user are
\* all of one kind
OperationErrorsOf(u) ==
  IF u = "u1" THEN OperationErrors ELSE { AxiosError("ERR_BAD_REQUEST", 400, undefined) }

\* the values an operation may resolve with
OperationValues == {1, 2}

\* shouldReduceVerbosity looks this far back for a success
VERBOSITY_WINDOW == 5 * 60 * 1000

\* NetworkRetry.shouldReduceVerbosity on the instance i
shouldReduceVerbosity(i) ==
  i.consecutiveFailures > 3 \/ now - i.lastSuccessTime > VERBOSITY_WINDOW

\* what execute logs before a retry (a logger being given)
LogLine(i, attempt, error) ==
  IF error.isAxiosError /\ error.status = 429 THEN "rate limited"
  ELSE IF shouldReduceVerbosity(i)
       THEN (IF attempt = 0 THEN "will retry in background" ELSE "nothing")
       ELSE "attempt failed"

\* a user that is not inside execute
IdleRun ==
  [ pc          |-> "idle",     \* idle, inflight, sleeping, done
    attempt     |-> 0,          \* execute: attempt
    startTime   |-> 0,          \* execute: startTime
    wakeAt      |-> 0,          \* end of the sleep before the next attempt
    invocations |-> 0,          \* how often operation was invoked
    delays      |-> << >>,      \* the first two delays taken
    error       |-> PlainError("none"), \* the error caught in this iteration
    allRetryable |-> TRUE,      \* whether every failure so far was network-level or 5xx
    slow        |-> FALSE,      \* whether time has passed while an attempt was under way
    result      |-> "none",     \* none, value, thrown
    value       |-> undefined,  \* the value execute returned
    log         |-> "none",     \* what this iteration logged
    bearer      |-> undefined ] \* an accessory request: the token of its Authorization header

\* a fresh NetworkRetry instance with the given policy
NewNetworkRetry(policy) ==
  [ policy |-> policy, consecutiveFailures |-> 0, lastSuccessTime |-> now ]

\* the delays ds followed by d, the first two of them
FirstTwo(ds, d) == IF Len(ds) < 2 THEN Append(ds, d) ELSE ds

\* execute is entered: startTime is read and operation invoked for the first time
ExecuteStart(r) ==
  [r EXCEPT !.pc = "inflight", !.attempt = 0, !.startTime = now, !.invocations = 1]

\* execute after operation resolved with value v
ExecuteSuccess(r, v) ==
  [r EXCEPT !.pc = "done", !.result = "value", !.value = v]

\* a catch block that also gives up once the instance has seen more than three
\* consecutive failures
ExecuteCatchCounting(i, r, error, k) ==
  LET r1 == [r EXCEPT !.error = error,
                      !.allRetryable = @ /\ isRetryableError(i.policy, error)
                                             /\ error.status /= 429]
  IN  IF GivesUp(i.policy, r.attempt, r.startTime, error) \/ i.consecutiveFailures > 3
      THEN [r1 EXCEPT !.pc = "done", !.result = "thrown"]
      ELSE LET delay == calculateDelay(i.policy, r.attempt, error, k)
           IN  [r1 EXCEPT !.pc = "sleeping",
                          !.wakeAt = setTimeoutAt(delay),
                          !.delays = FirstTwo(@, delay),
                          !.log = LogLine(i, r.attempt, error)]

\* execute's catch block for the error of this attempt, with jitter draw k
ExecuteCatch(i, r, error, k) ==
  LET r1 == [r EXCEPT !.error = error,
                      !.allRetryable = @ /\ isRetryableError(i.policy, error)
                                             /\ error.status /= 429]
  IN  IF GivesUp(i.policy, r.attempt, r.startTime, error)
      THEN [r1 EXCEPT !.pc = "done", !.result = "thrown"]
      ELSE LET delay == calculateDelay(i.policy, r.attempt, error, k)
           IN  [r1 EXCEPT !.pc = "sleeping",
                          !.wakeAt = setTimeoutAt(delay),
                          !.delays = FirstTwo(@, delay),
                          !.log = LogLine(i, r.attempt, error)]

\* a retry that begins the call anew: first attempt, fresh window
ExecuteRetryRestarting(r) ==
  [r EXCEPT !.pc = "inflight", !.wakeAt = 0, !.attempt = 0, !.startTime = now,
            !.invocations = 1, !.error = IdleRun.error, !.log = IdleRun.log]

\* the sleep is over: the loop's next iteration invokes operation again
ExecuteRetry(r) ==
  [r EXCEPT !.pc = "inflight", !.wakeAt = 0, !.attempt = @ + 1, !.invocations = @ + 1,
            !.error = IdleRun.error, !.log = IdleRun.log]

(***************************************************************************)
(* Actions                                                                 *)
(***************************************************************************)
Init ==
  /\ authToken = 0
  /\ refreshToken \in {0, 1}
  /\ expiration = now
  /\ refreshInProgress = FALSE
  /\ lastRefreshAttempt = now - MIN_REFRESH_INTERVAL * 1000
  /\ backgroundRefreshTimeout = undefined
  /\ rateLimitedUntil = undefined
  /\ timers = {}
  /\ configDoc = IF refreshToken = 0 THEN << 10, 11 >> ELSE << 10, refreshToken, 11 >>
  /\ hist = [ installedAt |-> now, lifetime |-> 0, requested |-> FALSE ]
  /\ call = [p \in Procs |-> IdleCall]
  /\ retry = NewNetworkRetry(AuthPolicy)
  /\ run = [u \in Users |-> IdleRun]

\* a direct call of renewAuthToken (the platform's didFinishLaunching handler)
Call(p) ==
  /\ call[p].pc = "idle"
  /\ Apply(p, RenewStart(Mgr, IdleCall))

\* an accessory operation: isExpired(), and renewAuthToken() when it says so
AccessoryOp(p) ==
  /\ call[p].pc = "idle"
  /\ IF isExpired
     THEN Apply(p, RenewStart(Mgr, IdleCall))
     ELSE Apply(p, [ m |-> Mgr, c |-> Returned(IdleCall, "fresh", authToken) ])

\* the background-refresh timer fires: its callback calls renewAuthToken
TimerFire ==
  /\ call[TimerProc].pc = "idle"
  /\ \E t \in timers :
       /\ t.at <= now
       /\ Apply(TimerProc, RenewStart([Mgr EXCEPT !.timers = timers \ {t}], IdleCall))

\* the token endpoint answers 2xx: execute returns, renewAuthToken runs to its end
ResponseOk(p) ==
  /\ call[p].pc = "inflight"
  /\ \E data \in SuccessData(authToken, call[p].old) :
       \E io \in IF UpdatedRefreshToken(data, call[p].old) /= call[p].old
                 THEN IoOutcomes ELSE {"ok"} :
         Apply(p, RenewSuccess(Mgr, call[p], data, io))

\* the token endpoint request fails: execute sleeps and retries, or rethrows
ResponseError(p) ==
  /\ call[p].pc = "inflight"
  /\ \E error \in EndpointErrors :
       IF GivesUp(AuthPolicy, call[p].attempt, call[p].startTime, error)
       THEN Apply(p, FailurePath(Mgr, call[p], error))
       ELSE \E k \in AuthDraws :
              Apply(p, [ m |-> Mgr,
                         c |-> [call[p] EXCEPT
                                  !.pc = "sleeping",
                                  !.wakeAt = setTimeoutAt(
                                     calculateDelay(AuthPolicy, call[p].attempt, error, k))] ])

\* the backoff sleep of execute ends: the next attempt invokes the operation
Wake(p) ==
  /\ call[p].pc = "sleeping"
  /\ call[p].wakeAt <= now
  /\ Apply(p, [ m |-> Mgr,
                c |-> [call[p] EXCEPT !.pc = "inflight", !.wakeAt = 0, !.attempt = @ + 1] ])

\* a waiter's poll finds refreshInProgress cleared and returns the token
Poll(p) ==
  /\ call[p].pc = "waiting"
  /\ ~refreshInProgress
  /\ Apply(p, [ m |-> Mgr, c |-> Returned(call[p], "waited", authToken) ])

\* the caller takes the settled promise; the slot is free again
Return(p) ==
  /\ call[p].pc = "done"
  /\ call' = [call EXCEPT ![p] = IdleCall]
  /\ UNCHANGED << authToken, refreshToken, expiration, refreshInProgress,
                  lastRefreshAttempt, backgroundRefreshTimeout, rateLimitedUntil,
                  timers, configDoc, hist, retry, run >>

\* the instants at which something must run before the clock moves on
Deadlines ==
  { t.at : t \in timers }
  \cup { call[p].wakeAt : p \in { q \in Procs : call[q].pc = "sleeping" } }

\* a waiter's next poll finds the flag cleared: it comes before the clock's next step
PollDue == \E p \in Procs : call[p].pc = "waiting" /\ ~refreshInProgress

\* the instant up to which the history of the credential's installation matters
HistHorizon(h) == h.installedAt + Max((h.lifetime - TOKEN_REFRESH_BUFFER) * 1000, 0) + 1

\* the unit of the clock's steps
TickUnit == MIN_REFRESH_INTERVAL * 1000

\* a timestamp t after d ms have passed; timestamps older than floor are all alike
Shift(t, d, floor) == Max(t - d, floor)

\* an invocation after d ms have passed
ShiftCall(c, d) ==
  [c EXCEPT
     !.startTime = IF c.pc \in {"inflight", "sleeping"}
                   THEN Shift(@, d, now - AuthPolicy.totalWindowMs) ELSE @,
     !.wakeAt    = Shift(@, d, now)]

\* d ms pass
Elapse(d) ==
  /\ expiration' = Shift(expiration, d, now - 1)
  /\ lastRefreshAttempt' = Shift(lastRefreshAttempt, d, now - MIN_REFRESH_INTERVAL * 1000)
  /\ rateLimitedUntil' = IF rateLimitedUntil = undefined THEN undefined
                         ELSE Shift(rateLimitedUntil, d, now)
  /\ timers' = { [t EXCEPT !.at = Shift(@, d, now)] : t \in timers }
  /\ hist' = [hist EXCEPT !.installedAt = Shift(@, d, @ - Max(HistHorizon(hist) - now, 0))]
  /\ call' = [p \in Procs |-> ShiftCall(call[p], d)]
  /\ UNCHANGED << authToken, refreshToken, refreshInProgress,
                  backgroundRefreshTimeout, configDoc, retry, run >>

\* time passes, up to the next deadline
Tick ==
  /\ ~Settling
  /\ ~PollDue
  /\ \A x \in Deadlines : x > now
  /\ \E k \in 1 .. MaxTickUnits :
       Elapse(MinOf({k * TickUnit} \cup { x - now : x \in Deadlines }))

Next ==
  \/ \E p \in Callers : Call(p)
  \/ \E p \in Callers : AccessoryOp(p)
  \/ TimerFire
  \/ \E p \in Procs : ResponseOk(p)
  \/ \E p \in Procs : ResponseError(p)
  \/ \E p \in Procs : Wake(p)
  \/ \E p \in Procs : Poll(p)
  \/ \E p \in Procs : Return(p)
  \/ Tick

Spec == Init /\ [][Next]_vars

(***************************************************************************)
(* Actions of the NetworkRetry instance used on its own                    *)
(***************************************************************************)
ExecInit ==
  /\ authToken = 0
  /\ refreshToken = 1
  /\ expiration = now
  /\ refreshInProgress = FALSE
  /\ lastRefreshAttempt = now - MIN_REFRESH_INTERVAL * 1000
  /\ backgroundRefreshTimeout = undefined
  /\ rateLimitedUntil = undefined
  /\ timers = {}
  /\ configDoc = << 10, refreshToken, 11 >>
  /\ hist = [ installedAt |-> now, lifetime |-> 0, requested |-> FALSE ]
  /\ call = [p \in Procs |-> IdleCall]
  /\ \E policy \in PolicySet : retry = NewNetworkRetry(policy)
  /\ run = [u \in Users |-> IdleRun]

\* a settled execute promise is taken by its caller before anything else runs
ExecSettling == \E u \in Users : run[u].pc = "done"

\* user u calls execute
ExecStart(u) ==
  /\ ~ExecSettling
  /\ run[u].pc = "idle"
  /\ SharedBy(retry.policy, u)
  /\ run' = [run EXCEPT ![u] = ExecuteStart(IdleRun)]
  /\ UNCHANGED << mgrVars, retry >>

\* u's operation resolves
ExecOk(u) ==
  /\ ~ExecSettling
  /\ run[u].pc = "inflight"
  /\ \E v \in OperationValues : run' = [run EXCEPT ![u] = ExecuteSuccess(@, v)]
  /\ retry' = [retry EXCEPT !.consecutiveFailures = 0, !.lastSuccessTime = now]
  /\ UNCHANGED mgrVars

\* u's operation rejects
ExecFail(u) ==
  /\ ~ExecSettling
  /\ run[u].pc = "inflight"
  /\ retry.consecutiveFailures < MaxFailures
  /\ retry' = [retry EXCEPT !.consecutiveFailures = @ + 1]
  /\ \E error \in OperationErrorsOf(u), k \in DrawsOf(retry.policy) :
       run' = [run EXCEPT ![u] = ExecuteCatch(retry', @, error, k)]
  /\ UNCHANGED mgrVars

\* u's sleep ends
ExecWake(u) ==
  /\ ~ExecSettling
  /\ run[u].pc = "sleeping"
  /\ run[u].wakeAt <= now
  /\ run' = [run EXCEPT ![u] = ExecuteRetry(@)]
  /\ UNCHANGED << mgrVars, retry >>

\* u takes the settled promise
ExecReturn(u) ==
  /\ run[u].pc = "done"
  /\ run' = [run EXCEPT ![u] = IdleRun]
  /\ UNCHANGED << mgrVars, retry >>

\* the ends of the sleeps under way
ExecDeadlines == { run[u].wakeAt : u \in { w \in Users : run[w].pc = "sleeping" } }

\* a run after d ms have passed
ShiftRun(r, d) ==
  [r EXCEPT
     !.startTime = IF r.pc \in {"inflight", "sleeping"}
                   THEN Shift(@, d, now - retry.policy.totalWindowMs - 1) ELSE @,
     !.wakeAt    = Shift(@, d, now),
     !.slow      = @ \/ r.pc = "inflight"]

\* lastSuccessTime after d ms have passed: it is read only by shouldReduceVerbosity,
\* which ignores it while consecutiveFailures > 3, and the success that resets the
\* counter overwrites it; all such values are alike
ShiftLastSuccess(i, d) ==
  IF i.consecutiveFailures > 3 THEN now - VERBOSITY_WINDOW - 1
  ELSE Shift(i.lastSuccessTime, d, now - VERBOSITY_WINDOW - 1)

\* time passes, up to the end of the next sleep
ExecTick ==
  /\ ~ExecSettling
  /\ run["u1"].pc /= "idle"
  /\ run["u2"].pc = "idle"
  /\ \A x \in ExecDeadlines : x > now
  /\ \E k \in 1 .. MaxTickUnits :
       LET d == MinOf({k * TickUnit} \cup { x - now : x \in ExecDeadlines })
       IN  /\ run' = [u \in Users |-> ShiftRun(run[u], d)]
           /\ retry' = [retry EXCEPT !.lastSuccessTime = ShiftLastSuccess(retry, d)]
  /\ UNCHANGED mgrVars

ExecNext ==
  \/ \E u \in Users : ExecStart(u)
  \/ \E u \in Users : ExecOk(u)
  \/ \E u \in Users : ExecFail(u)
  \/ \E u \in Users : ExecWake(u)
  \/ \E u \in Users : ExecReturn(u)
  \/ ExecTick

ExecSpec == ExecInit /\ [][ExecNext]_vars

(***************************************************************************)
(* The config update of a successful renewal, over documents of any content *)
(***************************************************************************)
\* other values of the config file that read like refresh tokens (the same account
\* configured for a second platform), before and after this platform's entry
TokenSeqs(n) == UNION { [1 .. k -> RefreshTokens] : k \in 0 .. n }

\* config documents: 10 is the text up to the opening quote of this platform's
\* refreshToken value, 11 the text from its closing quote
Documents(secret) ==
  { pre \o << 10, secret, 11 >> \o post :
      pre \in TokenSeqs(MaxOther), post \in TokenSeqs(MaxOther) }

\* the refresh_token values of the answers followed here
RotatedTokens == RefreshTokens \cup {0, DollarToken}

\* the platform has read its refreshToken from the config document
ConfigInit ==
  /\ authToken = 0
  /\ refreshToken \in RefreshTokens
  /\ expiration = now
  /\ refreshInProgress = FALSE
  /\ lastRefreshAttempt = now - MIN_REFRESH_INTERVAL * 1000
  /\ backgroundRefreshTimeout = undefined
  /\ rateLimitedUntil = undefined
  /\ timers = {}
  /\ configDoc \in Documents(refreshToken)
  /\ hist = [ installedAt |-> now, lifetime |-> 0, requested |-> FALSE ]
  /\ call = [p \in Procs |-> IdleCall]
  /\ retry = NewNetworkRetry(AuthPolicy)
  /\ run = [u \in Users |-> IdleRun]

\* a renewal whose request is answered at once with a valid credential
ConfigRenew ==
  /\ call["c1"].pc = "idle"
  /\ Truthy(refreshToken)
  /\ \E new \in RotatedTokens \ {refreshToken}, io \in IoOutcomes :
       LET data == [ access_token  |-> Minted(AccessTokens, authToken),
                     expires_in    |-> 360,
                     refresh_token |-> new ]
           c    == [IdleCall EXCEPT !.pc = "inflight", !.old = refreshToken]
       IN  Apply("c1", RenewSuccess(Mgr, c, data, io))

ConfigNext == ConfigRenew \/ Return("c1")

ConfigSpec == ConfigInit /\ [][ConfigNext]_vars

(***************************************************************************)
(* The accessory's operations on top of the credential manager             *)
(***************************************************************************)
\* the operation a user of the accessory's NetworkRetry instance stands for
OperationOf(u) == IF u = "u1" THEN "checkStatusFromAPI" ELSE "setTargetState"

\* the renewAuthToken invocation slot an operation uses
CallerOf(u) == IF u = "u1" THEN "c1" ELSE "c2"

\* an accessory that the platform has not constructed yet
Unbuilt == [IdleRun EXCEPT !.pc = "unbuilt"]

\* makeEcobeeRequest with the header 'Bearer ' + token: execute is entered
SendRequest(r, token) == [ExecuteStart(r) EXCEPT !.bearer = token]

\* the platform and its manager are constructed; no accessory exists yet
AccessoryInit ==
  /\ authToken = 0
  /\ refreshToken \in {0, 1}
  /\ expiration = now
  /\ refreshInProgress = FALSE
  /\ lastRefreshAttempt = now - MIN_REFRESH_INTERVAL * 1000
  /\ backgroundRefreshTimeout = undefined
  /\ rateLimitedUntil = undefined
  /\ timers = {}
  /\ configDoc = IF refreshToken = 0 THEN << 10, 11 >> ELSE << 10, refreshToken, 11 >>
  /\ hist = [ installedAt |-> now, lifetime |-> 0, requested |-> FALSE ]
  /\ call = [p \in Procs |-> IdleCall]
  /\ retry = NewNetworkRetry(AccessoryPolicy)
  /\ run = [u \in Users |-> Unbuilt]

\* didFinishLaunching: the platform calls renewAuthToken
Launch ==
  /\ run["u1"].pc = "unbuilt"
  /\ Call("c1")

\* that call has returned: loadControlSwitches constructs the accessory
LaunchDone ==
  /\ run["u1"].pc = "unbuilt"
  /\ call["c1"].pc = "done"
  /\ call' = [call EXCEPT !["c1"] = IdleCall]
  /\ run' = [u \in Users |-> IdleRun]
  /\ UNCHANGED << authToken, refreshToken, expiration, refreshInProgress,
                  lastRefreshAttempt, backgroundRefreshTimeout, rateLimitedUntil,
                  timers, configDoc, hist, retry >>

\* setTargetState or checkStatusFromAPI up to its first await: isExpired(), then
\* renewAuthToken() or the request
OpStart(u) ==
  /\ ~Settling
  /\ run[u].pc = "idle"
  /\ call[CallerOf(u)].pc = "idle"
  /\ IF isExpired
     THEN LET r == RenewStart(Mgr, IdleCall)
          IN  /\ SetMgr(r.m)
              /\ call' = Others(call, CallerOf(u), r.c)
              /\ run' = [run EXCEPT ![u].pc = "renewing"]
     ELSE /\ run' = [run EXCEPT ![u] = SendRequest(@, authToken)]
          /\ UNCHANGED mgrVars
  /\ retry' = retry

\* renewAuthToken has returned to the operation: setTargetState throws when it got
\* no token, checkStatusFromAPI does not look; then the request with this.authToken
OpResume(u) ==
  /\ run[u].pc = "renewing"
  /\ call[CallerOf(u)].pc = "done"
  /\ call' = [call EXCEPT ![CallerOf(u)] = IdleCall]
  /\ run' = [run EXCEPT ![u] =
               IF OperationOf(u) = "setTargetState" /\ ~Truthy(call[CallerOf(u)].ret)
               THEN [@ EXCEPT !.pc = "done", !.result = "thrown"]
               ELSE SendRequest(@, authToken)]
  /\ UNCHANGED << authToken, refreshToken, expiration, refreshInProgress,
                  lastRefreshAttempt, backgroundRefreshTimeout, rateLimitedUntil,
                  timers, configDoc, hist, retry >>

\* the operation ends: its request was answered, or it has thrown
OpEnd(u) ==
  /\ run[u].pc \in {"inflight", "done"}
  /\ run' = [run EXCEPT ![u] = IdleRun]
  /\ UNCHANGED << mgrVars, retry >>

\* time passes between the operations' requests
AccessoryTick ==
  /\ \A u \in Users : run[u].pc \notin {"inflight", "done"}
  /\ Tick

AccessoryNext ==
  \/ Launch
  \/ LaunchDone
  \/ \E u \in Users : OpStart(u)
  \/ \E u \in Users : OpResume(u)
  \/ \E u \in Users : OpEnd(u)
  \/ TimerFire
  \/ \E p \in Procs : ResponseOk(p)
  \/ \E p \in Procs : ResponseError(p)
  \/ \E p \in Procs : Wake(p)
  \/ \E p \in Procs : Poll(p)
  \/ Return(TimerProc)
  \/ AccessoryTick

AccessorySpec == AccessoryInit /\ [][AccessoryNext]_vars

(***************************************************************************)
(* Progress: what the event loop and the endpoint are relied on to do      *)
(***************************************************************************)
\* a callback that is ready runs, a request is answered, and time goes on without
\* end (no behaviour packs infinitely many steps into a finite time); when
\* renewAuthToken is called is up to its callers
Fairness ==
  /\ \A p \in Procs : WF_vars(Return(p))
  /\ \A p \in Procs : WF_vars(Poll(p))
  /\ \A p \in Procs : WF_vars(Wake(p))
  /\ \A p \in Procs : WF_vars(ResponseOk(p) \/ ResponseError(p))
  /\ WF_vars(TimerFire)
  /\ []<><<Tick>>_vars

LiveSpec == Init /\ [][Next]_vars /\ Fairness

\* the same for the NetworkRetry instance used on its own: each invocation of
\* operation completes (whatever the other user does meanwhile), a sleep that is
\* over is followed by the next attempt, a settled promise is taken, and time goes
\* on without end
ExecFairness ==
  /\ \A u \in Users : SF_vars(ExecOk(u) \/ ExecFail(u))
  /\ \A u \in Users : WF_vars(ExecWake(u))
  /\ \A u \in Users : WF_vars(ExecReturn(u))
  /\ []<><<ExecTick>>_vars

ExecLiveSpec == ExecInit /\ [][ExecNext]_vars /\ ExecFairness

(***************************************************************************)
(* Properties                                                              *)
(***************************************************************************)
\* C1: at any instant at most one invocation is inside networkRetry.execute
\* (its request in flight or its backoff sleep running)
C1_OneRenewalInFlight ==
  Cardinality({ p \in Procs : call[p].pc \in {"inflight", "sleeping"} }) <= 1

\* a renewal is asleep between attempts while another caller waits for it
C1_Witness ==
  \E p, q \in Procs :
    call[p].pc = "sleeping" /\ call[p].attempt >= 1 /\ call[q].pc = "waiting"

\* C2: a caller that called within the debounce window of a running renewal and
\* waited for it returns the value that renewal returned to the caller that started it
C2_SameTokenForAll ==
  \A p \in Procs :
    (call[p].pc = "done" /\ call[p].via = "waited" /\ call[p].inWindow)
      => call[p].ret = call[p].awaited

\* C3: a caller that waited for a renewal which produced a token returns that token
C3_WaiterGetsAwaitedToken ==
  \A p \in Procs :
    (call[p].pc = "done" /\ call[p].via = "waited" /\ call[p].released
       /\ Truthy(call[p].awaited))
      => call[p].ret = call[p].awaited

\* C4 as stated: outside a rate-limit backoff isExpired() is true exactly when the
\* token is empty or now + 300 s >= expiresAt
C4_ExpiredAtBoundary ==
  ~RateLimitActive(Mgr)
    => (isExpired <=> (authToken = 0 \/ now + 300 * 1000 >= expiration))

\* C4: outside a rate-limit backoff isExpired() is true exactly when the token is
\* empty or now + 300 s is strictly after expiresAt
C4_IsExpiredContract ==
  ~RateLimitActive(Mgr)
    => (isExpired <=> (authToken = 0 \/ now + 300 * 1000 > expiration))

\* a token is held and now + 300 s is exactly expiresAt, outside a backoff
C4_Witness ==
  /\ ~RateLimitActive(Mgr)
  /\ authToken /= 0
  /\ now + 300 * 1000 = expiration
  /\ \E p \in Callers : call[p].pc = "done" /\ call[p].via = "fresh"

\* C5: during a rate-limit backoff isExpired() is false whatever the token, an
\* accessory operation starts no renewal, and none is running
C5_NotExpiredWhileRateLimited ==
  RateLimitActive(Mgr)
    => /\ ~isExpired
       /\ ~refreshInProgress
       /\ \A p \in Procs : call[p].pc \notin {"inflight", "sleeping"}

\* during a backoff, with no token at all, an accessory operation found the
\* credential fresh
C5_Witness ==
  /\ RateLimitActive(Mgr)
  /\ authToken = 0
  /\ \E p \in Callers : call[p].pc = "done" /\ call[p].via = "fresh"

\* C6 as stated: right after a successful renewal that returned a positive
\* lifetime, whatever it is, isExpired() is false
C6_FreshAfterAnyRenewal ==
  \A p \in Procs :
    (call[p].pc = "done" /\ call[p].via = "renewed" /\ hist.lifetime > 0)
      => ~isExpired

\* C6: from the instant a credential with a lifetime of at least 300 s is installed
\* until expiresAt - 300 s, isExpired() is false
C6_FreshUntilBuffer ==
  (/\ hist.lifetime >= TOKEN_REFRESH_BUFFER
   /\ now <= hist.installedAt + (hist.lifetime - TOKEN_REFRESH_BUFFER) * 1000)
    => ~isExpired

\* a credential with a lifetime above 300 s has reached expiresAt - 300 s, and an
\* accessory operation found it fresh
C6_Witness ==
  /\ hist.lifetime > TOKEN_REFRESH_BUFFER
  /\ now = hist.installedAt + (hist.lifetime - TOKEN_REFRESH_BUFFER) * 1000
  /\ \E p \in Callers : call[p].pc = "done" /\ call[p].via = "fresh"

\* C7: when a credential with a positive lifetime reaches its expiresAt, a renewal
\* request has gone to the token endpoint since it was installed
C7_RenewedAheadOfExpiry ==
  (hist.lifetime > 0 /\ now >= expiration) => hist.requested

\* C8: the step that ends a renewal on its failure path leaves access token,
\* refresh secret and expiry as they were; the step that ends it successfully
\* sets the access token it returns (stated for answers that carry a positive
\* lifetime and no empty refresh token)
C8_NoPartialUpdate ==
  [][\A p \in Procs :
       (/\ call[p].pc = "inflight" /\ call'[p].pc = "done"
        /\ hist'.lifetime > 0 /\ refreshToken' /= 0)
         => IF call'[p].via = "failed"
            THEN /\ authToken' = authToken
                 /\ refreshToken' = refreshToken
                 /\ expiration' = expiration
            ELSE authToken' = call'[p].ret]_vars

\* C9: when a renewal ends successfully the access token is non-empty and
\* expiresAt is strictly in the future
C9_AcceptedCredentialValid ==
  \A p \in Procs :
    (call[p].pc = "done" /\ call[p].via = "renewed")
      => (authToken /= 0 /\ expiration > now)

\* C10: a caller whose renewal failed gets an error, and a background retry is
\* scheduled
C10_FailurePropagates ==
  \A p \in Callers :
    (call[p].pc = "done" /\ call[p].via = "failed")
      => (call[p].thrown /\ timers /= {})

\* C11: a renewAuthToken call that ran with no refresh secret configured ended as
\* a failure its caller was told of, and no request is out for a manager without
\* a refresh secret
C11_NoSecretFails ==
  /\ \A p \in Procs :
       (call[p].pc = "done" /\ ~Truthy(refreshToken) /\ call[p].via /= "fresh")
         => (call[p].via = "failed" /\ call[p].thrown)
  /\ ~Truthy(refreshToken)
       => \A p \in Procs : call[p].pc \notin {"inflight", "sleeping"}

\* C12: once the first attempt of an execute call has failed with a Fatal error (an
\* HTTP 4xx other than 429, or an error that does not come from the transport),
\* the call has thrown that error after one invocation of the operation and no
\* delay
C12_FatalFirstAttempt ==
  \A u \in Users :
    (/\ run[u].pc \in {"sleeping", "done"}
     /\ run[u].attempt = 0
     /\ run[u].error /= IdleRun.error
     /\ \/ ~run[u].error.isAxiosError
        \/ (/\ run[u].error.status >= 400 /\ run[u].error.status < 500
            /\ run[u].error.status /= 429))
      => /\ run[u].pc = "done"
         /\ run[u].result = "thrown"
         /\ run[u].invocations = 1
         /\ run[u].delays = << >>

\* first attempts have thrown an HTTP 400 and an error that is no transport error
C12_Witness ==
  /\ run["u1"].pc = "done" /\ run["u1"].attempt = 0 /\ run["u1"].result = "thrown"
  /\ ~run["u1"].error.isAxiosError
  /\ run["u2"].pc \in {"idle", "done"}

C14_RetryAfterHonoured ==
  [][\A u \in Users :
       (/\ run[u].pc = "inflight"
        /\ run'[u].pc = "sleeping"
        /\ run'[u].error.status = 429
        /\ run'[u].error.retryAfter = 10)
         => /\ run'[u].wakeAt - now >= 10 * 1000
            /\ run'[u].wakeAt - now
                 = Min(Max(10 * 1000, retry.policy.initialDelay), 5 * 60 * 1000)]_vars

\* a call sleeps 10 s after such an answer, under a policy whose initialDelay is
\* below 10 s
C14_Witness ==
  /\ retry.policy.initialDelay < 10 * 1000
  /\ run["u1"].pc = "sleeping"
  /\ run["u1"].error.status = 429 /\ run["u1"].error.retryAfter = 10
  /\ run["u1"].wakeAt = now + 10 * 1000

\* C15: an execute call whose attempts so far took no time starts no attempt later
\* than totalWindow after its first, so that it ends within totalWindow plus the
\* duration of one attempt
C15_WithinWindow ==
  [][\A u \in Users :
       (run[u].pc = "sleeping" /\ run'[u].pc = "inflight" /\ ~run[u].slow)
         => now - run[u].startTime <= retry.policy.totalWindowMs]_vars

\* C16: the step that ends a renewal successfully with a rotated, non-empty
\* refresh token leaves the config document with the new token as the platform's
\* refreshToken value and identical everywhere else
C16_RoundTrip ==
  [][(/\ call["c1"].pc = "idle"
      /\ call'["c1"].pc = "done"
      /\ call'["c1"].via = "renewed"
      /\ refreshToken' /= refreshToken
      /\ Truthy(refreshToken'))
       => LET i == CHOOSE k \in 1 .. Len(configDoc) : configDoc[k] = 10
              j == CHOOSE k \in 1 .. Len(configDoc) : configDoc[k] = 11
          IN  configDoc' = SubSeq(configDoc, 1, i) \o << refreshToken' >>
                             \o SubSeq(configDoc, j, Len(configDoc))]_vars

\* C17: whether and when a call on a shared instance retries is given by its own
\* attempt number, start time and error alone: a failed attempt ends the call
\* exactly when the call's own window, attempt budget or the error's class says so,
\* the sleep is a delay of calculateDelay for that attempt, a result is returned at
\* once, a sleep is followed by the next invocation, and no step of one call
\* changes the other
C17_CallsDoNotInterfere ==
  [][\A u \in Users :
       /\ (run[u].pc = "inflight" /\ run'[u].pc \in {"sleeping", "done"}
             /\ run'[u].result /= "value")
            => /\ run'[u].pc = "done"
                    <=> GivesUp(retry.policy, run[u].attempt, run[u].startTime,
                                run'[u].error)
               /\ run'[u].pc = "done" => run'[u].result = "thrown"
               /\ run'[u].pc = "sleeping"
                    => \E k \in JitterDraws :
                         run'[u].wakeAt
                           = setTimeoutAt(calculateDelay(retry.policy, run[u].attempt,
                                                         run'[u].error, k))
               /\ run'[u].attempt = run[u].attempt
               /\ run'[u].invocations = run[u].invocations
       /\ (run[u].pc = "sleeping" /\ run'[u].pc /= "sleeping")
            => /\ run[u].wakeAt <= now
               /\ run'[u].pc = "inflight"
               /\ run'[u].attempt = run[u].attempt + 1
               /\ run'[u].invocations = run[u].invocations + 1
       /\ (run'[u].pc /= run[u].pc)
            => \A w \in Users \ {u} : run'[w] = run[w]]_vars

\* a call sleeps before its next attempt, with terse logging, on an instance whose
\* failure counter stands above three because of the failures of other calls
C17_Witness ==
  /\ run["u1"].pc = "sleeping"
  /\ retry.consecutiveFailures > 3
  /\ run["u1"].invocations = 1
  /\ run["u1"].log = "will retry in background"
  /\ run["u2"].pc = "inflight"

\* C18: at most one background-renewal timer is pending, and it is the one the
\* manager's handle names (so that arming the next one cancels it)
C18_OneTimerPending ==
  /\ Cardinality(timers) <= 1
  /\ \A t \in timers : t.id = backgroundRefreshTimeout

\* a renewal has armed the timer for the next renewal and then, its config update
\* failing, the timer for the retry: only the retry timer is pending
C18_Witness ==
  /\ \E p \in Procs : call[p].pc = "done" /\ call[p].via = "failed"
  /\ hist.installedAt = now /\ hist.lifetime = TOKEN_REFRESH_BUFFER
  /\ \E t \in timers : t.at = now + FAILURE_RETRY_DELAY

\* C19: a renewAuthToken call made less than 60 s after the previous attempt began,
\* with no renewal in progress and no rate-limit backoff, returns the token held,
\* sends no request and leaves lastRefreshAttempt, the pending timer and the
\* credential as they were (the timer whose firing made the call is no longer
\* pending)
C19_DebouncedCallChangesNothing ==
  [][\A p \in Procs :
       (/\ call[p].pc = "idle" /\ call'[p].pc /= "idle" /\ call'[p].via /= "fresh"
        /\ ~RateLimitActive(Mgr)
        /\ ~refreshInProgress
        /\ now - lastRefreshAttempt < MIN_REFRESH_INTERVAL * 1000)
         => /\ call'[p].pc = "done"
            /\ call'[p].via = "debounced"
            /\ ~call'[p].thrown
            /\ call'[p].ret = authToken
            /\ \A q \in Procs : call'[q].pc \notin {"inflight", "sleeping"}
            /\ hist' = hist
            /\ lastRefreshAttempt' = lastRefreshAttempt
            /\ IF p = TimerProc
               THEN timers' \subseteq timers /\ Cardinality(timers') >= Cardinality(timers) - 1
               ELSE timers' = timers /\ backgroundRefreshTimeout' = backgroundRefreshTimeout
            /\ authToken' = authToken
            /\ refreshToken' = refreshToken
            /\ expiration' = expiration
            /\ refreshInProgress' = refreshInProgress
            /\ rateLimitedUntil' = rateLimitedUntil]_vars

\* a caller was handed the token held, 30 s after a renewal began that has since
\* failed, while the retry timer is pending
C19_Witness ==
  \E p \in Callers :
    /\ call[p].pc = "done" /\ call[p].via = "debounced"
    /\ call[p].ret = authToken
    /\ now - lastRefreshAttempt = 30 * 1000
    /\ timers /= {}

\* C20: a renewAuthToken call made while rateLimitedUntil lies in the future returns
\* the token held, sends no request and leaves the credential, refreshInProgress,
\* lastRefreshAttempt, rateLimitedUntil and the pending timer as they were
C20_BackoffCallChangesNothing ==
  [][\A p \in Procs :
       (/\ call[p].pc = "idle" /\ call'[p].pc /= "idle" /\ call'[p].via /= "fresh"
        /\ rateLimitedUntil /= undefined
        /\ now < rateLimitedUntil)
         => /\ call'[p].pc = "done"
            /\ call'[p].via = "ratelimited"
            /\ ~call'[p].thrown
            /\ call'[p].ret = authToken
            /\ \A q \in Procs : call'[q].pc \notin {"inflight", "sleeping"}
            /\ hist' = hist
            /\ authToken' = authToken
            /\ refreshToken' = refreshToken
            /\ expiration' = expiration
            /\ refreshInProgress' = refreshInProgress
            /\ lastRefreshAttempt' = lastRefreshAttempt
            /\ rateLimitedUntil' = rateLimitedUntil
            /\ timers' = timers
            /\ backgroundRefreshTimeout' = backgroundRefreshTimeout]_vars

\* a caller was handed the token held during a backoff, more than 60 s after the
\* attempt that was rate limited began, while the timer for the retry is pending
C20_Witness ==
  \E p \in Callers :
    /\ call[p].pc = "done" /\ call[p].via = "ratelimited"
    /\ call[p].ret = authToken
    /\ rateLimitedUntil /= undefined /\ now < rateLimitedUntil
    /\ now - lastRefreshAttempt >= MIN_REFRESH_INTERVAL * 1000
    /\ timers /= {}

\* C21: while now < rateLimitedUntil no token request is in flight or between two
\* attempts, and no step of a caller, a waiter or the timer starts one
C21_NoRequestDuringBackoff ==
  [][(rateLimitedUntil /= undefined /\ now < rateLimitedUntil)
       => /\ \A p \in Procs : call[p].pc \notin {"inflight", "sleeping"}
          /\ \A p \in Procs : call'[p].pc \notin {"inflight", "sleeping"}
          /\ hist'.requested = hist.requested]_vars

\* during a backoff a waiter of the renewal that was rate limited has returned,
\* and the timer for the retry is pending
C21_Witness ==
  /\ rateLimitedUntil /= undefined /\ now < rateLimitedUntil
  /\ \E p \in Callers : call[p].pc = "done" /\ call[p].via = "waited"
  /\ \E t \in timers : t.at = rateLimitedUntil

\* C22: the step in which a renewAuthToken call that set refreshInProgress returns,
\* on whichever path, leaves the flag false; the flag is true only while the call
\* that set it is in execute
C22_FlagClearedOnEveryExit ==
  [][/\ \A p \in Procs :
          (/\ call[p].pc \in {"idle", "inflight"}
           /\ call'[p].pc = "done"
           /\ call'[p].via \in {"renewed", "failed"})
            => ~refreshInProgress'
     /\ refreshInProgress'
          => \E p \in Procs : call'[p].pc \in {"inflight", "sleeping"}]_vars

\* a call that found no refresh token has set the flag, failed and returned with
\* the flag cleared
C22_Witness ==
  /\ ~Truthy(refreshToken)
  /\ \E p \in Procs : call[p].pc = "done" /\ call[p].via = "failed"
  /\ lastRefreshAttempt = now
  /\ ~refreshInProgress

\* C23: after the step that ends a renewal successfully the refresh token is the
\* one that was sent or a new, non-empty one the answer carried
C23_SecretKeptOrRenewed ==
  [][\A p \in Procs :
       (/\ call[p].pc = "inflight"
        /\ call'[p].pc = "done"
        /\ call'[p].via = "renewed")
         => (refreshToken' = call[p].old \/ Truthy(refreshToken'))]_vars

\* C24: after the step that ends a renewal successfully exactly one timer is
\* pending, the one the handle names, and it fires (expires_in - 300) s after that
\* step (a timer cannot fire in the past: after 1 ms when expires_in <= 300)
C24_NextRenewalScheduled ==
  [][\A p \in Procs :
       (/\ call[p].pc = "inflight"
        /\ call'[p].pc = "done"
        /\ call'[p].via = "renewed")
         => timers' = { [ id |-> backgroundRefreshTimeout',
                          at |-> now + Max((hist'.lifetime - 300) * 1000, 1),
                          delay |-> (hist'.lifetime - 300) * 1000 ] }]_vars

\* a renewal that was started while a retry timer was pending has succeeded with a
\* lifetime of 360 s: the one timer pending fires 60 s later
C24_Witness ==
  /\ \E p \in Procs : call[p].pc = "done" /\ call[p].via = "renewed"
  /\ hist.installedAt = now /\ hist.lifetime = 360
  /\ timers = { [ id |-> backgroundRefreshTimeout, at |-> now + 60 * 1000,
                   delay |-> 60 * 1000 ] }
  /\ now - lastRefreshAttempt >= MIN_REFRESH_INTERVAL * 1000

\* C25: the step that ends a renewal with an HTTP 429 sets rateLimitedUntil to
\* now + 5 minutes and leaves exactly one timer pending, due at that instant; and
\* when that timer fires its renewAuthToken call sends a token request
C25_RateLimitRetry ==
  [][/\ \A p \in Procs :
          (/\ call[p].pc = "inflight"
           /\ call'[p].pc = "done"
           /\ call'[p].via = "failed"
           /\ call'[p].caught.isAxiosError
           /\ call'[p].caught.status = 429)
            => /\ rateLimitedUntil' = now + 5 * 60 * 1000
               /\ timers' = { [ id |-> backgroundRefreshTimeout',
                                at |-> rateLimitedUntil',
                                delay |-> 5 * 60 * 1000 ] }
     /\ (/\ \E t \in timers \ timers' : t.delay = 5 * 60 * 1000
         /\ call[TimerProc].pc = "idle"
         /\ call'[TimerProc].pc /= "idle")
          => /\ call'[TimerProc].pc = "inflight"
             /\ hist'.requested
             /\ timers' = {}]_vars

\* the timer armed for the end of a backoff has fired and its call has sent a
\* request
C25_Witness ==
  /\ rateLimitedUntil /= undefined /\ rateLimitedUntil <= now
  /\ call[TimerProc].pc = "inflight" /\ call[TimerProc].attempt = 0
  /\ lastRefreshAttempt = now
  /\ timers = {}

\* C26: the step that ends a renewal with a failure other than an HTTP 429 leaves a
\* timer pending that fires one minute later
C26_RetryAfterOneMinute ==
  [][\A p \in Procs :
       (/\ call[p].pc \in {"idle", "inflight"}
        /\ call'[p].pc = "done"
        /\ call'[p].via = "failed"
        /\ ~(call'[p].caught.isAxiosError /\ call'[p].caught.status = 429))
         => \E t \in timers' : t.at = now + 60 * 1000]_vars

\* C27: the delay execute sleeps after a failed attempt is at most the time that
\* remains of totalWindow at that failure
C27_SleepWithinRemaining ==
  [][\A u \in Users :
       (run[u].pc = "inflight" /\ run'[u].pc = "sleeping")
         => run'[u].wakeAt - now
              <= retry.policy.totalWindowMs - (now - run[u].startTime)]_vars

\* C28: a call of execute has invoked operation at most maxAttempts times; a failed
\* attempt after which nothing remains of totalWindow, or which was the last
\* allowed one, is followed by no invocation: the call throws that attempt's error
C28_AttemptBudget ==
  [][\A u \in Users :
       /\ run'[u].invocations <= retry.policy.maxAttempts
       /\ (/\ run[u].pc = "inflight"
           /\ run'[u].pc \in {"sleeping", "done"}
           /\ run'[u].result /= "value"
           /\ \/ retry.policy.totalWindowMs - (now - run[u].startTime) <= 0
              \/ run[u].attempt = retry.policy.maxAttempts - 1)
            => /\ run'[u].pc = "done"
               /\ run'[u].result = "thrown"
               /\ run'[u].error /= IdleRun.error
               /\ run'[u].invocations = run[u].invocations
       /\ run[u].pc = "done" => run'[u].pc \in {"done", "idle"}]_vars

\* a call has thrown a transport error after its last allowed attempt
C28_Witness ==
  /\ run["u1"].pc = "done" /\ run["u1"].result = "thrown"
  /\ run["u1"].attempt = retry.policy.maxAttempts - 1
  /\ run["u1"].invocations = retry.policy.maxAttempts
  /\ run["u1"].error.code = "ETIMEDOUT"
  /\ now - run["u1"].startTime < retry.policy.totalWindowMs

C31_Classification ==
  [][\A u \in Users :
       (/\ run[u].pc = "inflight"
        /\ run'[u].pc \in {"sleeping", "done"}
        /\ run'[u].result /= "value"
        /\ run[u].attempt < retry.policy.maxAttempts - 1
        /\ retry.policy.totalWindowMs - (now - run[u].startTime) > 0)
         => LET e           == run'[u].error
                rateLimited == e.isAxiosError /\ e.status = 429
                retryable   == /\ e.isAxiosError
                               /\ e.status /= 429
                               /\ \/ e.code \in {"ECONNRESET", "ETIMEDOUT", "ECONNREFUSED",
                                                 "ENOTFOUND", "EAI_AGAIN", "ENETUNREACH"}
                                  \/ e.status >= 500
            IN  /\ run'[u].pc = "sleeping" <=> (rateLimited \/ retryable)
                /\ run'[u].pc = "done" => run'[u].result = "thrown"]_vars

\* C32: a renewal the background timer started at expiresAt - 300 s is inside
\* execute only before expiresAt, and a sleep it takes there ends before expiresAt
C32_RenewalEndsBeforeExpiry ==
  (/\ call[TimerProc].pc \in {"inflight", "sleeping"}
   /\ now - call[TimerProc].startTime < AuthPolicy.totalWindowMs
   /\ call[TimerProc].startTime = expiration - TOKEN_REFRESH_BUFFER * 1000)
    => /\ now < expiration
       /\ call[TimerProc].pc = "sleeping" => call[TimerProc].wakeAt < expiration

\* C33: the config document changes only in the step that ends a renewal
\* successfully with a refresh token different from the one sent, and then to the
\* document with that substitution made; no other step (a renewal that fails, one
\* whose refresh token did not change, a substitution that changes nothing) alters it
C33_ConfigWrittenOnlyOnRotation ==
  [][/\ configDoc' /= configDoc
          => \E p \in Procs :
               /\ call[p].pc = "inflight"
               /\ call'[p].pc = "done"
               /\ call'[p].via = "renewed"
               /\ refreshToken' /= call[p].old
               /\ configDoc' = ReplaceFirst(configDoc, call[p].old, refreshToken')
     /\ \A p \in Procs :
          (/\ call[p].pc \in {"idle", "inflight"}
           /\ call'[p].pc = "done"
           /\ \/ call'[p].via = "failed"
              \/ refreshToken' = call[p].old)
            => configDoc' = configDoc]_vars

\* a renewal has ended successfully with the second refresh token, which stands in
\* the config document in place of the first
C33_Witness ==
  /\ \E p \in Procs : call[p].pc = "done" /\ call[p].via = "renewed"
  /\ hist.installedAt = now
  /\ refreshToken = 2
  /\ configDoc = << 10, 2, 11 >>

\* C34: with a refresh secret configured, a step that ends a renewal, or that is
\* taken while a timer is pending, leaves a timer pending unless a renewal is in
\* progress after it: the chain of background renewals does not die out
C34_ChainNeverDies ==
  [][(/\ Truthy(refreshToken')
      /\ ~refreshInProgress'
      /\ \/ timers /= {}
         \/ \E p \in Procs : /\ call[p].pc \in {"idle", "inflight"}
                             /\ call'[p].pc = "done"
                             /\ call'[p].via \in {"renewed", "failed"})
       => timers' /= {}]_vars

\* C35: a caller in the wait loop of renewAuthToken eventually returns
C35_WaitersReturn ==
  \A p \in Procs : (call[p].pc = "waiting") ~> (call[p].pc /= "waiting")

\* C36: a call of execute whose operation invocations all complete ends: it returns
\* a value or throws
C36_ExecuteTerminates ==
  \A u \in Users : (run[u].pc \in {"inflight", "sleeping"}) ~> (run[u].pc = "done")

\* a call has thrown the third HTTP 429 in a row, after two sleeps, with its window
\* used up
C36_Witness ==
  /\ run["u1"].pc = "done" /\ run["u1"].result = "thrown"
  /\ run["u1"].attempt = 2
  /\ run["u1"].error.status = 429
  /\ Len(run["u1"].delays) = 2
  /\ now - run["u1"].startTime >= retry.policy.totalWindowMs

\* C37: from the instant a renewal sets refreshInProgress until execute has returned
\* or thrown, its sleeps included, no background-renewal timer is pending and the
\* handle names none
C37_NoTimerDuringRenewal ==
  (refreshInProgress \/ \E p \in Procs : call[p].pc \in {"inflight", "sleeping"})
    => /\ timers = {}
       /\ backgroundRefreshTimeout = undefined

\* a caller's renewal sleeps between two attempts at a time for which the previous
\* renewal had armed the timer that is no longer pending
C37_Witness ==
  /\ \E p \in Callers : call[p].pc = "sleeping" /\ call[p].attempt = 0
  /\ refreshInProgress
  /\ hist.lifetime = 360
  /\ now < hist.installedAt + 60 * 1000
  /\ timers = {}

\* C38: outside a rate-limit backoff, the request of an accessory operation carries
\* a bearer token that is not empty and has not reached its expiresAt
C38_RequestsCarryValidToken ==
  \A u \in Users :
    (run[u].pc = "inflight" /\ ~RateLimitActive(Mgr))
      => /\ run[u].bearer /= 0
         /\ now < expiration

\* C39: no step takes the manager from a non-empty refresh token to an empty one,
\* and no renewAuthToken call of a manager that held a refresh token when the
\* call began ends with the 'No refresh token' error
C39_SecretStaysNonEmpty ==
  [][/\ Truthy(refreshToken) => Truthy(refreshToken')
     /\ \A p \in Procs :
          (/\ Truthy(refreshToken)
           /\ call[p].pc \in {"idle", "inflight"}
           /\ call'[p].pc = "done")
            => call'[p].caught /= PlainError("No refresh token in config file")]_vars

====
